---- MODULE Spec2Model ----
(***************************************************************************)
(* ConcenTrack, screen.py: the capture / OCR / classify / summarize / log  *)
(* / delete loop of main(), with the log store (summary_log.json) and the  *)
(* screenshot directory as the persistent state.                           *)
(*                                                                         *)
(* A Python string is a sequence of pieces (each piece a run of            *)
(* characters); the pieces in WS are whitespace.  A JSON document on disk  *)
(* is a sequence of tokens, so that a partly written file is a prefix of   *)
(* the token sequence json.dump produces.                                  *)
(***************************************************************************)
EXTENDS Naturals, Sequences, FiniteSets, TLC

(* ----------------------------- bounds --------------------------------- *)

\* Number of loop iterations main() is followed for.
MaxCycles == 2

\* Largest number of tokens a failed or interrupted json.dump leaves on disk.
MaxPartial == 2

(* ------------------------ configuration ------------------------------- *)

\* interval = 5 * 60
interval == 300

save_dir == "~/productivity/screenshots"

(* --------------------------- strings ---------------------------------- *)

WS == {" ", "\n"}

Str(w) == <<w>>

RECURSIVE lstrip(_)
lstrip(s) ==
    IF s = <<>> THEN <<>>
    ELSE IF Head(s) \in WS THEN lstrip(Tail(s)) ELSE s

RECURSIVE rstrip(_)
rstrip(s) ==
    IF s = <<>> THEN <<>>
    ELSE IF s[Len(s)] \in WS THEN rstrip(SubSeq(s, 1, Len(s) - 1)) ELSE s

\* str.strip(): leading and trailing whitespace removed.
strip(s) == rstrip(lstrip(s))

\* datetime.datetime.now().strftime("%Y-%m-%d_%H-%M-%S") of clock value t.
strftime(t) == Str(ToString(t))

\* os.path.join(save_dir, f"screenshot_{timestamp}.png")
screenshot_path(ts) == <<save_dir, "/screenshot_">> \o ts \o <<".png">>

(* ----------------------------- JSON ----------------------------------- *)

\* A token is punctuation or a string literal.
P(c) == [t |-> "p", v |-> <<c>>]
S(s) == [t |-> "s", v |-> s]

\* A dict is the sequence of its <<key, value>> pairs in insertion order.
EncodePair(kv) == <<S(kv[1]), P(":"), S(kv[2])>>

RECURSIVE EncodePairs(_)
EncodePairs(d) ==
    IF d = <<>> THEN <<>>
    ELSE IF Len(d) = 1 THEN EncodePair(d[1])
    ELSE EncodePair(d[1]) \o <<P(",")>> \o EncodePairs(Tail(d))

EncodeDict(d) == <<P("{")>> \o EncodePairs(d) \o <<P("}")>>

RECURSIVE EncodeElems(_)
EncodeElems(l) ==
    IF l = <<>> THEN <<>>
    ELSE IF Len(l) = 1 THEN EncodeDict(l[1])
    ELSE EncodeDict(l[1]) \o <<P(",")>> \o EncodeElems(Tail(l))

\* Mutant of json_dump: only the newest record is written.
json_dump_newest(l) ==
    <<P("[")>> \o EncodeElems(IF l = <<>> THEN <<>> ELSE <<l[Len(l)]>>)
               \o <<P("]")>>

\* json.dump(logs, f, indent=4): the token sequence of a list of dicts.
json_dump(l) == <<P("[")>> \o EncodeElems(l) \o <<P("]")>>

\* Parse results: ok, the value read, and the index of the next token.
Bad == [ok |-> FALSE, val |-> <<>>, next |-> 0]

Tok(toks, i) == IF i >= 1 /\ i <= Len(toks) THEN toks[i] ELSE P("<eof>")

\* The pairs of a dict from token i on, up to and including the closing brace.
RECURSIVE ParsePairs(_, _, _)
ParsePairs(toks, i, acc) ==
    IF /\ Tok(toks, i).t = "s"
       /\ Tok(toks, i + 1) = P(":")
       /\ Tok(toks, i + 2).t = "s"
    THEN LET acc2 == Append(acc, <<toks[i].v, toks[i + 2].v>>)
         IN  IF Tok(toks, i + 3) = P(",") THEN ParsePairs(toks, i + 4, acc2)
             ELSE IF Tok(toks, i + 3) = P("}")
                  THEN [ok |-> TRUE, val |-> acc2, next |-> i + 4]
                  ELSE Bad
    ELSE Bad

\* A dict starting at token i.
ParseDict(toks, i) ==
    IF Tok(toks, i) # P("{") THEN Bad
    ELSE IF Tok(toks, i + 1) = P("}")
         THEN [ok |-> TRUE, val |-> <<>>, next |-> i + 2]
         ELSE ParsePairs(toks, i + 1, <<>>)

\* The elements of a list from token i on, up to and including the bracket.
RECURSIVE ParseElems(_, _, _)
ParseElems(toks, i, acc) ==
    LET d == ParseDict(toks, i)
    IN  IF ~d.ok THEN Bad
        ELSE LET acc2 == Append(acc, d.val)
             IN  IF Tok(toks, d.next) = P(",")
                 THEN ParseElems(toks, d.next + 1, acc2)
                 ELSE IF Tok(toks, d.next) = P("]")
                      THEN [ok |-> TRUE, val |-> acc2, next |-> d.next + 1]
                      ELSE Bad

\* json.load(f): kind "list" with the list read, kind "dict" for a document
\* that is a single object, kind "error" for json.JSONDecodeError.
json_load(toks) ==
    IF Tok(toks, 1) = P("[")
    THEN LET r == IF Tok(toks, 2) = P("]")
                  THEN [ok |-> TRUE, val |-> <<>>, next |-> 3]
                  ELSE ParseElems(toks, 2, <<>>)
         IN  IF r.ok /\ r.next = Len(toks) + 1
             THEN [kind |-> "list", val |-> r.val]
             ELSE [kind |-> "error", val |-> <<>>]
    ELSE LET d == ParseDict(toks, 1)
         IN  IF d.ok /\ d.next = Len(toks) + 1
             THEN [kind |-> "dict", val |-> <<>>]
             ELSE [kind |-> "error", val |-> <<>>]

(* ------------------------- pure functions ----------------------------- *)

Unknown == Str("Unknown")

\* get_active_application(): q is what running osascript did.  The return
\* code is not consulted; a launch failure raises and is caught.
get_active_application(q) ==
    IF ~q.launched THEN Unknown
    ELSE IF strip(q.stdout) # <<>> THEN strip(q.stdout) ELSE Unknown

\* categorize_content(text): r is what the chat completion call did.
categorize_content(r) ==
    IF r.ok THEN strip(r.content) ELSE Str("Uncategorized")

\* summarize_text(text): r is what the chat completion call did.
summarize_text(r) ==
    IF r.ok THEN strip(r.content) ELSE Str("Summary generation failed")

\* analyze_image: the return value when Image.open / image_to_string raised.
ocr_error_result == [text |-> Str("Error during OCR"), category |-> Str("Error")]

\* analyze_image: the return value when no text was extracted.
no_text_result ==
    [text |-> Str("No text detected"), category |-> Str("Idle/Empty Screen")]

\* Mutant of no_text: the strip() is left out.
no_text_unstripped(t) == t = <<>>

\* analyze_image: `not extracted_text.strip()`.
no_text(t) == strip(t) = <<>>

\* Mutant of analyze_image_early: the except clause does not return.
analyze_image_early_no_return(failed, text) ==
    IF no_text(text) /\ ~failed
    THEN [returned |-> TRUE, result |-> no_text_result]
    ELSE [returned |-> FALSE, result |-> no_text_result]

\* analyze_image, lines 48-55: whether it returns before the categorization,
\* and with what.
analyze_image_early(failed, text) ==
    IF failed THEN [returned |-> TRUE, result |-> ocr_error_result]
    ELSE IF no_text(text) THEN [returned |-> TRUE, result |-> no_text_result]
    ELSE [returned |-> FALSE, result |-> no_text_result]

\* Mutant of analyze_image_result: a failed classification discards the
\* summary.
analyze_image_result_dependent(cat, summ) ==
    IF cat = Str("Uncategorized")
    THEN [text |-> Str("Summary generation failed"), category |-> cat]
    ELSE [text |-> summ, category |-> cat]

\* analyze_image, line 61: the return value after both calls.
analyze_image_result(cat, summ) == [text |-> summ, category |-> cat]

\* main: the log_entry dict, keys in insertion order.
make_log_entry(ts, app, fn, analysis) ==
    << <<Str("timestamp"), ts>>,
       <<Str("application"), app>>,
       <<Str("screenshot"), fn>>,
       <<Str("summary"), analysis.text>>,
       <<Str("category"), analysis.category>> >>

\* d[key] for a dict d that has the key.
Get(d, key) == d[CHOOSE i \in 1..Len(d) : d[i][1] = Str(key)][2]

(* ------------------------ environment inputs -------------------------- *)

\* What running osascript can do: not launch, or exit with a code and output.
OsaQueries ==
    { [launched |-> FALSE, returncode |-> 1, stdout |-> <<>>] } \cup
    [ launched : {TRUE}, returncode : {0, 1},
      stdout : { <<>>, <<"Safari", "\n">> } ]

\* What running screencapture can do.
CaptureOutcomes == {"ok", "nofile", "nolaunch"}

\* What Image.open + pytesseract.image_to_string can do on an existing file.
OcrOutcomes ==
    { [ok |-> FALSE, text |-> <<>>] } \cup
    [ ok : {TRUE},
      text : { <<>>, <<" ", "\n">>, <<" ", "Q3 earnings report draft", "\n">> } ]

\* What the classification call can do.
ClassifyResponses ==
    { [ok |-> FALSE, content |-> <<>>] } \cup
    [ ok : {TRUE}, content : { <<"Work", "\n">>, <<"Gaming">> } ]

\* What the summarization call can do.
SummarizeResponses ==
    { [ok |-> FALSE, content |-> <<>>] } \cup
    [ ok : {TRUE}, content : { <<" ", "Drafting a Q3 earnings report.", "\n">> } ]

NoResponse == [ok |-> FALSE, content |-> <<>>]

\* A record left in the store by an earlier run.
OldRecord ==
    make_log_entry(strftime(0), Unknown, screenshot_path(strftime(0)),
                   no_text_result)

\* The log file when main() starts: absent, or present with some content.
InitialStores ==
    { [exists |-> FALSE, content |-> <<>>] } \cup
    [ exists : {TRUE},
      content : { <<>>, json_dump(<<>>), json_dump(<<OldRecord>>),
                  EncodeDict(OldRecord), <<P("[")>> } ]

\* The proper prefixes of doc of at most MaxPartial tokens.
Partial(doc) ==
    { SubSeq(doc, 1, n) : n \in { k \in 0..MaxPartial : k < Len(doc) } }

(* ------------------------------ state --------------------------------- *)

VARIABLES
    pc,              \* where main() is
    now,             \* the wall clock
    timestamp,       \* main: timestamp
    filename,        \* main: filename
    active_app,      \* main: active_app
    extracted_text,  \* analyze_image: extracted_text
    category,        \* analyze_image: category
    log_entry,       \* main: log_entry (<<>> before it is built)
    logs,            \* log_summary: logs
    store,           \* the file at log_file: [exists, content]
    files,           \* the screenshot files this run of main() left on disk
    cycle,           \* number of loop iterations started
    ocr,             \* what OCR did in this cycle ("none" before it ran)
    cat_resp,        \* what the classification call did in this cycle
    sum_resp,        \* what the summarization call did in this cycle
    calls,           \* this cycle's call counts: categorize, summarize, log
    log_outcome,     \* this cycle's log_summary: "none", "ok" or "failed"
    before,          \* the records in the store when log_summary was entered
    written,         \* [ok, recs]: every log_summary so far succeeded from an
                     \* absent or empty store, and the records they were given
    osa,             \* get_active_application: what osascript did, kept
                     \* until main() runs screencapture
    log_error        \* the exception this cycle's log_summary caught at
                     \* line 125 ("none" if it caught none)

vars == << pc, now, timestamp, filename, active_app, extracted_text, category,
           log_entry, logs, store, files, cycle, ocr, cat_resp, sum_resp,
           calls, log_outcome, before, written, osa, log_error >>

\* No osascript result is held.
NoQuery == [launched |-> FALSE, returncode |-> 0, stdout |-> <<>>]

NoCalls == [categorize |-> 0, summarize |-> 0, log |-> 0]

\* The records a reader of the store gets: those of a decodable list.
Records(st) ==
    IF st.exists /\ json_load(st.content).kind = "list"
    THEN json_load(st.content).val
    ELSE <<>>

Init ==
    /\ pc = "Idle"
    /\ now = interval
    /\ timestamp = <<>>
    /\ filename = <<>>
    /\ active_app = <<>>
    /\ extracted_text = <<>>
    /\ category = <<>>
    /\ log_entry = <<>>
    /\ logs = <<>>
    /\ store \in InitialStores
    /\ files = {}
    /\ cycle = 0
    /\ ocr = "none"
    /\ cat_resp = NoResponse
    /\ sum_resp = NoResponse
    /\ calls = NoCalls
    /\ log_outcome = "none"
    /\ before = <<>>
    /\ written = [ok |-> (~store.exists
                            \/ store.content \in {<<>>, json_dump(<<>>)}),
                  recs |-> <<>>]
    /\ osa = NoQuery
    /\ log_error = "none"

(* ----------------------------- main() --------------------------------- *)

\* Lines 136-140: top of the loop body, through get_active_application().
Begin ==
    /\ pc = "Idle"
    /\ cycle < MaxCycles
    /\ \E q \in OsaQueries :
          /\ osa' = q
          /\ active_app' = get_active_application(q)
    /\ timestamp' = strftime(now)
    /\ filename' = screenshot_path(strftime(now))
    /\ cycle' = cycle + 1
    /\ extracted_text' = <<>>
    /\ category' = <<>>
    /\ log_entry' = <<>>
    /\ logs' = <<>>
    /\ ocr' = "none"
    /\ cat_resp' = NoResponse
    /\ sum_resp' = NoResponse
    /\ calls' = NoCalls
    /\ log_outcome' = "none"
    /\ before' = <<>>
    /\ log_error' = "none"
    /\ pc' = "Capturing"
    /\ UNCHANGED << now, store, files, written >>

\* Line 143: subprocess.run(["screencapture", "-x", filename]).  A non-zero
\* exit is not checked; failing to launch the program raises out of main().
Capture ==
    /\ pc = "Capturing"
    /\ \E c \in CaptureOutcomes :
          \/ /\ c = "ok"
             /\ files' = files \cup {filename}
             /\ pc' = "Extracting"
          \/ /\ c = "nofile"
             /\ files' = files
             /\ pc' = "Extracting"
          \/ /\ c = "nolaunch"
             /\ files' = files
             /\ pc' = "Crashed"
    /\ osa' = NoQuery
    /\ UNCHANGED << now, timestamp, filename, active_app, extracted_text,
                    category, log_entry, logs, store, cycle, ocr, cat_resp,
                    sum_resp, calls, log_outcome, before, written,
                    log_error >>

\* Lines 48-55 and 147-158: analyze_image up to its early returns, and the
\* log_entry main() builds when it returned early.  Image.open raises when
\* the file is not there.
Extract ==
    /\ pc = "Extracting"
    /\ \E o \in OcrOutcomes :
          LET failed == filename \notin files \/ ~o.ok
              text   == IF failed THEN <<>> ELSE o.text
              r      == analyze_image_early(failed, text)
          IN  /\ ocr' = IF failed THEN "failed" ELSE "text"
              /\ extracted_text' = text
              /\ \/ /\ r.returned
                    /\ log_entry' = make_log_entry(timestamp, active_app,
                                                   filename, r.result)
                    /\ pc' = "Logging"
                 \/ /\ ~r.returned
                    /\ log_entry' = log_entry
                    /\ pc' = "Analyzing"
    /\ UNCHANGED << now, timestamp, filename, active_app, category, logs,
                    store, files, cycle, cat_resp, sum_resp, calls,
                    log_outcome, before, written,
                    osa, log_error >>

\* Line 58: category = categorize_content(extracted_text).
Categorize ==
    /\ pc = "Analyzing"
    /\ \E r \in ClassifyResponses :
          /\ cat_resp' = r
          /\ category' = categorize_content(r)
    /\ calls' = [calls EXCEPT !.categorize = @ + 1]
    /\ pc' = "Summarizing"
    /\ UNCHANGED << now, timestamp, filename, active_app, extracted_text,
                    log_entry, logs, store, files, cycle, ocr, sum_resp,
                    log_outcome, before, written,
                    osa, log_error >>

\* Lines 59-61 and 147-158: summary = summarize_text(extracted_text), the
\* return of analyze_image, and the log_entry main() builds from it.
Summarize ==
    /\ pc = "Summarizing"
    /\ \E r \in SummarizeResponses :
          /\ sum_resp' = r
          /\ log_entry' = make_log_entry(timestamp, active_app, filename,
                              analyze_image_result(category,
                                                   summarize_text(r)))
    /\ calls' = [calls EXCEPT !.summarize = @ + 1]
    /\ pc' = "Logging"
    /\ UNCHANGED << now, timestamp, filename, active_app, extracted_text,
                    category, logs, store, files, cycle, ocr, cat_resp,
                    log_outcome, before, written,
                    osa, log_error >>

(* --------------------------- log_summary ------------------------------ *)

\* Mutant of log_append: the record is appended twice.
log_append_twice(l, data) == Append(Append(l, data), data)

\* Line 119: logs.append(data).
log_append(l, data) == Append(l, data)

\* log_summary returning through `except Exception` (lines 125-126), e being
\* the exception caught.
LogFailed(e) ==
    /\ log_outcome' = "failed"
    /\ log_error' = e
    /\ written' = [ok |-> FALSE, recs |-> <<>>]
    /\ pc' = "Cleaning"

\* Lines 110-119: entry of log_summary, reading the existing log, append.
\* Opening the file for reading can raise OSError; a document that is not
\* a list has no append and raises AttributeError; both are caught.
LogRead ==
    /\ pc = "Logging"
    /\ calls' = [calls EXCEPT !.log = @ + 1]
    /\ before' = Records(store)
    /\ \E readable \in BOOLEAN :
          \/ /\ ~store.exists
             /\ readable
             /\ logs' = log_append(<<>>, log_entry)
             /\ pc' = "LogOpen"
             /\ UNCHANGED << log_outcome, written, log_error >>
          \/ /\ store.exists /\ readable
             /\ json_load(store.content).kind = "list"
             /\ logs' = log_append(json_load(store.content).val, log_entry)
             /\ pc' = "LogOpen"
             /\ UNCHANGED << log_outcome, written, log_error >>
          \/ /\ store.exists /\ readable
             /\ json_load(store.content).kind = "error"
             /\ logs' = log_append(<<>>, log_entry)
             /\ pc' = "LogOpen"
             /\ UNCHANGED << log_outcome, written, log_error >>
          \/ /\ store.exists /\ readable
             /\ json_load(store.content).kind = "dict"
             /\ logs' = logs
             /\ LogFailed("AttributeError")
          \/ /\ store.exists /\ ~readable
             /\ logs' = logs
             /\ LogFailed("OSError")
    /\ UNCHANGED << now, timestamp, filename, active_app, extracted_text,
                    category, log_entry, store, files, cycle, ocr, cat_resp,
                    sum_resp, osa >>

\* Line 122: open(log_file, "w") creates or truncates the file, or raises.
LogOpen ==
    /\ pc = "LogOpen"
    /\ \E writable \in BOOLEAN :
          \/ /\ writable
             /\ store' = [exists |-> TRUE, content |-> <<>>]
             /\ pc' = "LogDump"
             /\ UNCHANGED << log_outcome, written, log_error >>
          \/ /\ ~writable
             /\ store' = store
             /\ LogFailed("OSError")
    /\ UNCHANGED << now, timestamp, filename, active_app, extracted_text,
                    category, log_entry, logs, files, cycle, ocr, cat_resp,
                    sum_resp, calls, before, osa >>

\* Line 123 and the close of the with block: json.dump(logs, f, indent=4)
\* writes the whole document, or raises OSError with part of it on disk.
LogDump ==
    /\ pc = "LogDump"
    /\ \/ /\ store' = [exists |-> TRUE, content |-> json_dump(logs)]
          /\ log_outcome' = "ok"
          /\ log_error' = log_error
          /\ written' = [written EXCEPT
                            !.recs = IF written.ok THEN Append(@, log_entry)
                                     ELSE <<>>]
          /\ pc' = "Cleaning"
       \/ /\ \E part \in Partial(json_dump(logs)) :
                store' = [exists |-> TRUE, content |-> part]
          /\ LogFailed("OSError")
    /\ UNCHANGED << now, timestamp, filename, active_app, extracted_text,
                    category, log_entry, logs, files, cycle, ocr, cat_resp,
                    sum_resp, calls, before, osa >>

(* ------------------------ main(), continued --------------------------- *)

\* Mutant of Clean: the screenshot is not removed.
CleanKeepsFile ==
    /\ pc = "Cleaning"
    /\ pc' = "Sleeping"
    /\ UNCHANGED << now, timestamp, filename, active_app, extracted_text,
                    category, log_entry, logs, store, files, cycle, ocr,
                    cat_resp, sum_resp, calls, log_outcome, before, written,
                    osa, log_error >>

\* Mutant of Clean: the loop goes round without sleeping.
CleanSkipsSleep ==
    /\ pc = "Cleaning"
    /\ filename \in files
    /\ files' = files \ {filename}
    /\ pc' = "Idle"
    /\ UNCHANGED << now, timestamp, filename, active_app, extracted_text,
                    category, log_entry, logs, store, cycle, ocr, cat_resp,
                    sum_resp, calls, log_outcome, before, written,
                    osa, log_error >>

\* Mutant of Clean: the log file is removed along with the screenshot.
CleanRemovesLog ==
    /\ pc = "Cleaning"
    /\ filename \in files
    /\ files' = files \ {filename}
    /\ store' = [exists |-> FALSE, content |-> <<>>]
    /\ pc' = "Sleeping"
    /\ UNCHANGED << now, timestamp, filename, active_app, extracted_text,
                    category, log_entry, logs, cycle, ocr, cat_resp,
                    sum_resp, calls, log_outcome, before, written,
                    osa, log_error >>

\* Line 165: os.remove(filename).  FileNotFoundError and PermissionError are
\* not KeyboardInterrupt: they leave main() through the try statement.
Clean ==
    /\ pc = "Cleaning"
    /\ \E removable \in BOOLEAN :
          \/ /\ filename \in files /\ removable
             /\ files' = files \ {filename}
             /\ pc' = "Sleeping"
          \/ /\ filename \in files /\ ~removable
             /\ files' = files
             /\ pc' = "Crashed"
          \/ /\ filename \notin files /\ removable
             /\ files' = files
             /\ pc' = "Crashed"
    /\ UNCHANGED << now, timestamp, filename, active_app, extracted_text,
                    category, log_entry, logs, store, cycle, ocr, cat_resp,
                    sum_resp, calls, log_outcome, before, written,
                    osa, log_error >>

\* Line 168: time.sleep(interval), then the next iteration.
Sleep ==
    /\ pc = "Sleeping"
    /\ now' = now + interval
    /\ pc' = "Idle"
    /\ UNCHANGED << timestamp, filename, active_app, extracted_text, category,
                    log_entry, logs, store, files, cycle, ocr, cat_resp,
                    sum_resp, calls, log_outcome, before, written,
                    osa, log_error >>

Running == {"Idle", "Capturing", "Extracting", "Analyzing", "Summarizing",
            "Logging", "LogOpen", "LogDump", "Cleaning", "Sleeping"}

\* Lines 169-170: KeyboardInterrupt, raised wherever main() is, ends the loop.
\* Raised inside json.dump it leaves on disk what had been written so far.
Interrupt ==
    /\ pc \in Running
    /\ pc' = "Stopped"
    /\ \/ /\ pc = "LogDump"
          /\ \E part \in Partial(json_dump(logs)) :
                store' = [exists |-> TRUE, content |-> part]
          /\ written' = [ok |-> FALSE, recs |-> <<>>]
       \/ /\ pc # "LogDump"
          /\ UNCHANGED << store, written >>
    /\ UNCHANGED << now, timestamp, filename, active_app, extracted_text,
                    category, log_entry, logs, files, cycle, ocr, cat_resp,
                    sum_resp, calls, log_outcome, before, osa, log_error >>

Next ==
    \/ Begin
    \/ Capture
    \/ Extract
    \/ Categorize
    \/ Summarize
    \/ LogRead
    \/ LogOpen
    \/ LogDump
    \/ Clean
    \/ Sleep
    \/ Interrupt

Spec == Init /\ [][Next]_vars

(* ============================== claims ================================ *)

\* The records of the store that carry timestamp ts.
RecordsOf(ts) ==
    { i \in 1..Len(Records(store)) :
        Get(Records(store)[i], "timestamp") = ts }

IsPrefix(a, b) == Len(a) <= Len(b) /\ SubSeq(b, 1, Len(a)) = a

Blank(t) == \A i \in 1..Len(t) : t[i] \in WS

(* ------------------------------- C1 ----------------------------------- *)

\* C1 as stated: when a cycle has reached the sleep, the store holds exactly
\* one record of that cycle, whatever the outcome of the log write.
C1_ExactlyOneRecordPerCycle ==
    pc = "Sleeping" => Cardinality(RecordsOf(timestamp)) = 1

\* C1, amended: when a cycle has reached the sleep, log_summary was called
\* exactly once in it; the store holds exactly one record of the cycle, the
\* last one and equal to the cycle's log_entry, if that call succeeded, and
\* no record of the cycle if the call failed.
C1_OneRecordUnlessLogFailed ==
    pc = "Sleeping" =>
        /\ calls.log = 1
        /\ log_outcome \in {"ok", "failed"}
        /\ log_outcome = "ok" =>
              /\ Cardinality(RecordsOf(timestamp)) = 1
              /\ Records(store)[Len(Records(store))] = log_entry
        /\ log_outcome = "failed" => RecordsOf(timestamp) = {}

\* A second cycle reached the sleep after an OCR failure, and its record
\* was written after the first cycle's.
C1_Witness ==
    /\ pc = "Sleeping"
    /\ cycle = 2
    /\ ocr = "failed"
    /\ log_outcome = "ok"
    /\ Len(Records(store)) >= 2

(* ------------------------------- C2 ----------------------------------- *)

\* C2: once cleanup has completed, while the loop sleeps and when the next
\* cycle begins, no screenshot file exists, whatever failed in the cycle.
C2_ScreenshotTransient ==
    pc \in {"Sleeping", "Idle"} => files = {}

\* A cycle whose screenshot was captured, whose OCR failed and whose log
\* write failed has completed its cleanup.
C2_Witness ==
    /\ pc = "Sleeping"
    /\ ocr = "failed"
    /\ log_outcome = "failed"
    /\ filename \notin files

(* ------------------------------- C3 ----------------------------------- *)

\* C3: no failure other than the interrupt terminates the process.
C3_NoFailureTerminates ==
    pc # "Crashed"

(* ------------------------------- C4 ----------------------------------- *)

\* C4: when acquisition produced no file, the cleanup step is a no-op and
\* the cycle proceeds to Sleeping (unless the interrupt arrives first).
C4_CleanupNoOpWithoutFile ==
    [][ (pc = "Cleaning" /\ filename \notin files /\ pc' # "Stopped")
            => (pc' = "Sleeping" /\ files' = files) ]_vars

(* ------------------------------- C5 ----------------------------------- *)

\* C5: when the process has exited on an interrupt, no screenshot file
\* exists: the interrupted cycle was completed first.
C5_InterruptAfterCleanup ==
    pc = "Stopped" => files = {}

(* ------------------------------- C6 ----------------------------------- *)

\* C6: if OCR failed in a cycle, the record of the cycle has category
\* "Error" and summary "Error during OCR", and neither categorize_content
\* nor summarize_text was called in the cycle.
C6_OcrFailureRecord ==
    ocr = "failed" =>
        /\ log_entry # <<>>
        /\ Get(log_entry, "category") = Str("Error")
        /\ Get(log_entry, "summary") = Str("Error during OCR")
        /\ calls.categorize = 0
        /\ calls.summarize = 0

\* A cycle with an existing but unreadable screenshot completed and its
\* record is the last one of the store.
C6_Witness ==
    /\ pc = "Sleeping"
    /\ ocr = "failed"
    /\ log_outcome = "ok"
    /\ Records(store)[Len(Records(store))] = log_entry

(* ------------------------------- C7 ----------------------------------- *)

\* C7: if OCR succeeded with empty or whitespace-only text, the record of
\* the cycle has category "Idle/Empty Screen" and summary "No text
\* detected", neither call was made, and the record differs from the one
\* of an OCR failure.
C7_NoTextRecord ==
    (ocr = "text" /\ Blank(extracted_text)) =>
        /\ log_entry # <<>>
        /\ Get(log_entry, "category") = Str("Idle/Empty Screen")
        /\ Get(log_entry, "summary") = Str("No text detected")
        /\ calls.categorize = 0
        /\ calls.summarize = 0
        /\ Get(log_entry, "category") # ocr_error_result.category
        /\ Get(log_entry, "summary") # ocr_error_result.text

\* OCR returned whitespace only and the cycle's record was written.
C7_Witness ==
    /\ pc = "Sleeping"
    /\ ocr = "text"
    /\ extracted_text = <<" ", "\n">>
    /\ log_outcome = "ok"

(* ------------------------------- C8 ----------------------------------- *)

AfterAnalysis == {"Logging", "LogOpen", "LogDump", "Cleaning", "Sleeping"}

\* C8: whenever OCR yielded non-empty text, both calls are made in the
\* cycle, and the record carries for each side the call's own result, or
\* that side's sentinel if that call failed, whatever the other call did.
C8_IndependentCalls ==
    (ocr = "text" /\ ~Blank(extracted_text) /\ pc \in AfterAnalysis) =>
        /\ calls.categorize = 1
        /\ calls.summarize = 1
        /\ log_entry # <<>>
        /\ Get(log_entry, "category") =
              IF cat_resp.ok THEN strip(cat_resp.content)
              ELSE Str("Uncategorized")
        /\ Get(log_entry, "summary") =
              IF sum_resp.ok THEN strip(sum_resp.content)
              ELSE Str("Summary generation failed")

\* Classification failed, summarization succeeded, and the record has the
\* sentinel category with the real summary.
C8_Witness ==
    /\ pc = "Sleeping"
    /\ ~cat_resp.ok /\ calls.categorize = 1
    /\ sum_resp.ok
    /\ Get(log_entry, "category") = Str("Uncategorized")
    /\ Get(log_entry, "summary") = Str("Drafting a Q3 earnings report.")

(* ------------------------------- C9 ----------------------------------- *)

\* C9: when log_summary has returned, the records the store held when it
\* was entered are a prefix of the records the store holds.
C9_AppendOnly ==
    pc = "Cleaning" => IsPrefix(before, Records(store))

(* ------------------------------- C10 ---------------------------------- *)

\* C10: starting from an absent or empty store, after N log_summary calls
\* that all succeeded, reading the store back gives exactly the N records
\* the calls were given, in call order.
C10_RoundTrip ==
    (written.ok /\ pc # "LogDump") =>
        /\ Records(store) = written.recs
        /\ written.recs # <<>> =>
              json_load(store.content) =
                  [kind |-> "list", val |-> written.recs]

\* Two calls have succeeded from an absent or empty store.
C10_Witness ==
    /\ written.ok
    /\ Len(written.recs) = 2
    /\ pc = "Sleeping"

(* ------------------------------- C11 ---------------------------------- *)

\* C11: after a log_summary that caught an I/O failure, the cycle goes on:
\* the cleanup step that follows deletes the screenshot and reaches the
\* sleep (unless the interrupt arrives first), and the write is not retried.
C11_LogFailureContained ==
    [][ /\ (pc = "Cleaning" /\ log_error = "OSError" /\ pc' # "Stopped")
              => (pc' = "Sleeping" /\ filename \notin files')
        /\ log_error = "OSError" => calls'.log = 1 ]_vars

(* ------------------------------- C12 ---------------------------------- *)

\* C12: when log_summary has returned without an I/O error and the store it
\* found was absent or did not decode to a non-empty list, the store holds
\* exactly the one new record.
C12_ToleratesBadStore ==
    (pc = "Cleaning" /\ before = <<>> /\ log_error # "OSError")
        => (store.exists /\ Records(store) = <<log_entry>>)

(* ------------------------------- C13 ---------------------------------- *)

Categories ==
    { Str(c) : c \in {"Work", "Communication", "Browsing", "Entertainment",
                      "Idle/Empty Screen", "Uncategorized", "Error"} }

\* C13: every record of the log has a category of the fixed set, or one of
\* the sentinels Uncategorized and Error.
C13_CategoryInFixedSet ==
    \A i \in 1..Len(Records(store)) :
        Get(Records(store)[i], "category") \in Categories

(* ------------------------------- C14 ---------------------------------- *)

\* C14: when the interrupt ends a cycle before its cleanup has completed,
\* the log store holds no record of that cycle.
C14_NoRecordOfAbandonedCycle ==
    [][ (pc' = "Stopped" /\ pc \notin {"Sleeping", "Idle"})
            => (RecordsOf(timestamp) = {})' ]_vars

(* ------------------------------- C15 ---------------------------------- *)

\* The osascript run failed: no launch, a non-zero exit, or no name printed.
QueryFailed(q) == ~q.launched \/ q.returncode # 0 \/ Blank(q.stdout)

\* C15: get_active_application returns "Unknown" on every failure of the
\* query and the frontmost application's name otherwise.
C15_UnknownOnEveryFailure ==
    pc = "Capturing" =>
        active_app = IF QueryFailed(osa) THEN Unknown ELSE strip(osa.stdout)

(* ------------------------------- C16 ---------------------------------- *)

\* C16: a capture step that leaves no file does not end the process, and
\* the analysis that follows it yields the record with category "Error"
\* and summary "Error during OCR", handed to log_summary.
C16_AcquisitionFailureIsOcrFailure ==
    [][ /\ (pc = "Capturing" /\ pc' # "Stopped" /\ filename \notin files')
              => pc' = "Extracting"
        /\ (pc = "Extracting" /\ pc' # "Stopped" /\ filename \notin files)
              => /\ pc' = "Logging"
                 /\ Get(log_entry', "category") = Str("Error")
                 /\ Get(log_entry', "summary") = Str("Error during OCR") ]_vars

(* ------------------------------- C17 ---------------------------------- *)

\* The order of the stages within a cycle and from one cycle to the next.
StageOrder ==
    { <<"Idle", "Capturing">>, <<"Capturing", "Extracting">>,
      <<"Extracting", "Analyzing">>, <<"Extracting", "Logging">>,
      <<"Analyzing", "Summarizing">>, <<"Summarizing", "Logging">>,
      <<"Logging", "LogOpen">>, <<"Logging", "Cleaning">>,
      <<"LogOpen", "LogDump">>, <<"LogOpen", "Cleaning">>,
      <<"LogDump", "Cleaning">>, <<"Cleaning", "Sleeping">>,
      <<"Sleeping", "Idle">> }

\* C17: every step of main() follows the stage order; a screenshot appears
\* only in the capture stage, OCR runs only in the extraction stage, the
\* classifier and the summarizer only in theirs and in that order, the
\* store is touched only in the log stage, a screenshot disappears only in
\* the cleanup stage; a cycle starts only when no screenshot of the cycle
\* before is left, and the sleep does nothing but let the clock advance.
C17_StagesOrdered ==
    [][ /\ pc' \in {"Stopped", "Crashed"} \/ <<pc, pc'>> \in StageOrder
        /\ ~(files' \subseteq files) => pc = "Capturing"
        /\ ocr' # ocr /\ ocr' # "none" => pc = "Extracting"
        /\ calls'.categorize > calls.categorize => pc = "Analyzing"
        /\ calls'.summarize > calls.summarize =>
              pc = "Summarizing" /\ calls.categorize = 1
        /\ (calls'.log > calls.log \/ store' # store) =>
              pc \in {"Logging", "LogOpen", "LogDump"}
        /\ ~(files \subseteq files') => pc = "Cleaning" /\ calls.log = 1
        /\ cycle' # cycle => pc = "Idle" /\ files = {}
        /\ pc = "Sleeping" =>
              UNCHANGED << store, files, calls, ocr, log_entry, cycle >>
        /\ now' # now => pc = "Sleeping" ]_vars

\* A second cycle has gone through every stage.
C17_Witness ==
    /\ pc = "Sleeping"
    /\ cycle = 2
    /\ calls = [categorize |-> 1, summarize |-> 1, log |-> 1]
    /\ now = interval + interval

(* ------------------------------- C18 ---------------------------------- *)

\* C18: once log_summary has been left, by return or by the interrupt, the
\* store holds the records it held on entry, or those followed by the new
\* record.
C18_ReadModifyWriteAtomic ==
    (calls.log = 1 /\ pc \notin {"LogOpen", "LogDump"}) =>
        \/ Records(store) = before /\ (before # <<>> => store.exists)
        \/ Records(store) = Append(before, log_entry)

(* ------------------------------- C19 ---------------------------------- *)

\* C19: the cleanup step removes at most the screenshot of its own cycle
\* and leaves the store alone; capture, OCR, classification and
\* summarization leave the store alone; the store changes only inside
\* log_summary, which is entered at most once per cycle, and exactly once
\* by the time the cycle cleans up.
C19_Frame ==
    /\ [] (pc \in {"Cleaning", "Sleeping"} => calls.log = 1)
    /\ [][ /\ pc = "Cleaning" =>
                 /\ store' = store
                 /\ files' \in {files, files \ {filename}}
           /\ pc \in {"Capturing", "Extracting", "Analyzing", "Summarizing"}
                 => store' = store
           /\ store' # store => pc \in {"LogOpen", "LogDump"}
           /\ calls'.log <= 1 ]_vars

\* A second cycle that classified and summarized has logged and cleaned up
\* after a first one that logged too.
C19_Witness ==
    /\ pc = "Sleeping"
    /\ cycle = 2
    /\ calls.categorize = 1
    /\ log_outcome = "ok"
    /\ files = {}
    /\ Len(Records(store)) >= 2

====
